---- MODULE Spec2Model ----
(***************************************************************************)
(* A model of saq's Queue (src/saq/queue.py) and Job (src/saq/job.py):     *)
(* the keys one queue keeps in the shared store, and the operations that   *)
(* clients (producers, workers, the web UI) run against it.  Every store   *)
(* round trip (a script, a MULTI/EXEC pipeline, a single command) is one   *)
(* atomic step; an operation made of several round trips is several steps, *)
(* with the client's position kept in pc.                                  *)
(***************************************************************************)
EXTENDS Integers, Sequences, FiniteSets, TLC

\* ------------------------------------------------------------------ bounds
MaxOps == 4
MaxNow == 3

Clients == {"c1", "c2"}
Keys == {"a", "b"}
\* Redis orders members of equal score lexicographically.
KeyRank(k) == IF k = "a" THEN 1 ELSE 2

\* ---------------------------------------------------------------- statuses
\* NEW is a reserved word of TLA+.
NEW_ == "new"
DEFERRED == "deferred"
QUEUED == "queued"
ACTIVE == "active"
ABORTED == "aborted"
FAILED == "failed"
COMPLETE == "complete"
Status == {NEW_, DEFERRED, QUEUED, ACTIVE, ABORTED, FAILED, COMPLETE}
TERMINAL_STATUSES == {COMPLETE, FAILED, ABORTED}

NoKey == "nil"
NoError == "none"
NoScore == -1

\* The Job dataclass: the fields the queue reads or writes.
Job(k, st, err, sch, tl, to, hb, sta, tou, com, pro) ==
    [key |-> k, status |-> st, error |-> err, scheduled |-> sch, ttl |-> tl,
     timeout |-> to, heartbeat |-> hb, started |-> sta, touched |-> tou,
     completed |-> com, progress |-> pro]

\* deserialize(None): no job.
NoJob == Job(NoKey, NEW_, NoError, 0, 0, 0, 0, 0, 0, 0, 0)

\* The keyword arguments a caller gives enqueue: scheduled, ttl, timeout, heartbeat.
JobArgs ==
    { [scheduled |-> 0, ttl |-> 1, timeout |-> 0, heartbeat |-> 0],
      [scheduled |-> 2, ttl |-> 0, timeout |-> 0, heartbeat |-> 0],
      [scheduled |-> 0, ttl |-> -1, timeout |-> 2, heartbeat |-> 1] }

\* The lock and marker lifetimes callers pass (seconds).
ScheduleLock == {1}
SweepLock == {1}
AbortTtl == {1}
RetryDelay == {0, 1}
Errors == {"err", "retried from ui", "aborted from ui", "swept"}
WorkerErrors == {"err"}

VARIABLES
    now,         \* the clock, in seconds
    incomplete,  \* saq:Q:incomplete, sorted set: key -> score, NoScore when absent
    queued,      \* saq:Q:queued, list (head = left)
    active,      \* saq:Q:active, list (head = left)
    record,      \* saq:job:Q:<key>, the serialized job, NoJob when absent
    recExp,      \* expiry time of the record key, 0 when it has none
    abortExp,    \* saq:job:Q:<key>:abort, its expiry time, 0 when absent
    schedLock,   \* saq:Q:schedule, its expiry time, 0 when absent
    sweepLock,   \* saq:Q:sweep, its expiry time, 0 when absent
    chan,        \* the messages published on each job's channel, in order
    pc,          \* each client's position
    job,         \* each client's Job object (NoJob: none / a None return)
    cur,         \* each client's job id in flight (dequeue)
    todo,        \* each client's sweep: the ids, then <<id, record>> pairs, left
    swept,       \* each client's sweep result
    counters,    \* each queue handle's complete/failed/retried/aborted
    last,        \* the operation each client last called
    got,         \* how each client came by its Job object: enqueue, dequeue, job
    ops,         \* operations begun
    before,      \* each queue handle's _before_enqueues, in registration order
    cbs,         \* each client's enqueue: the callbacks still to await
    ran,         \* each client's enqueue: the callbacks awaited, in order
    raised,      \* the exception each client's last call ended with, "none" if none
    scope,       \* each client's batch scope: none, open, aborting
    children,    \* each client's batch: the jobs track_child recorded
    called,      \* each client's batch: the children abort was called for
    listen,      \* each client's map: its listen task (none, pending, subscribed)
    subAt,       \* each client's map: per channel, the messages sent before it subscribed
    mapKeys,     \* each client's map: job_keys
    mapLeft      \* each client's map: the keys whose enqueue has not reached the store

\* What batch, the before_enqueue registry and map keep, in the client process.
ext == <<before, cbs, ran, raised, scope, children, called, listen, subAt, mapKeys, mapLeft>>

vars == <<now, incomplete, queued, active, record, recExp, abortExp, schedLock,
          sweepLock, chan, pc, job, cur, todo, swept, counters, last, got, ops, ext>>

store == <<incomplete, queued, active, record, recExp, abortExp, schedLock, sweepLock>>

\* ------------------------------------------------------------ list commands
RECURSIVE LRemFirst(_, _)
\* LREM key 1 v: remove the first occurrence of v, from the head.
LRemFirst(s, v) ==
    IF s = <<>> THEN <<>>
    ELSE IF Head(s) = v THEN Tail(s)
    ELSE <<Head(s)>> \o LRemFirst(Tail(s), v)

\* Mutant: an LREM that was left out.
LRemNothing(s, v) == s

\* LREM key 0 v: remove every occurrence of v.
LRemAll(s, v) == SelectSeq(s, LAMBDA x : x # v)

Count(s, v) == Cardinality({i \in 1..Len(s) : s[i] = v})
Members(s) == {s[i] : i \in 1..Len(s)}

\* ZCARD
ZCard(z) == Cardinality({k \in Keys : z[k] # NoScore})


\* ------------------------------------------------------------------- codec
\* serialize: dump(job.to_dict()); the stored value carries every field.
serialize(j) == j

\* deserialize: no bytes, no job.
deserialize(bytes) == IF bytes = NoJob THEN NoJob ELSE bytes

\* ------------------------------------------------------------------- state
\* A fresh queue handle: no callback registered, no batch, no map.
InitExt ==
    /\ before = [c \in Clients |-> <<>>]
    /\ cbs = [c \in Clients |-> <<>>]
    /\ ran = [c \in Clients |-> <<>>]
    /\ raised = [c \in Clients |-> "none"]
    /\ scope = [c \in Clients |-> "none"]
    /\ children = [c \in Clients |-> {}]
    /\ called = [c \in Clients |-> {}]
    /\ listen = [c \in Clients |-> "none"]
    /\ subAt = [c \in Clients |-> [k \in Keys |-> 0]]
    /\ mapKeys = [c \in Clients |-> {}]
    /\ mapLeft = [c \in Clients |-> {}]

Init ==
    /\ now = 1
    /\ incomplete = [k \in Keys |-> NoScore]
    /\ queued = <<>>
    /\ active = <<>>
    /\ record = [k \in Keys |-> NoJob]
    /\ recExp = [k \in Keys |-> 0]
    /\ abortExp = [k \in Keys |-> 0]
    /\ schedLock = 0
    /\ sweepLock = 0
    /\ chan = [k \in Keys |-> <<>>]
    /\ pc = [c \in Clients |-> "idle"]
    /\ job = [c \in Clients |-> NoJob]
    /\ cur = [c \in Clients |-> NoKey]
    /\ todo = [c \in Clients |-> <<>>]
    /\ swept = [c \in Clients |-> <<>>]
    /\ counters = [c \in Clients |-> [complete |-> 0, failed |-> 0, retried |-> 0, aborted |-> 0]]
    /\ last = [c \in Clients |-> "none"]
    /\ got = [c \in Clients |-> "none"]
    /\ ops = 0
    /\ InitExt

\* A client starts an operation: it is between operations (and not in the middle of
\* a batch's aborts), and the budget allows it.
Begin(c, op) ==
    /\ pc[c] = "idle"
    /\ scope[c] # "aborting"
    /\ ops < MaxOps
    /\ ops' = ops + 1
    /\ last' = [last EXCEPT ![c] = op]

\* A key with an expiry is gone once the clock reaches it.
Expired(exp, t) == exp # 0 /\ exp <= t

\* Time passes; the store drops the keys whose expiry has come.
Tick ==
    /\ now < MaxNow
    /\ now' = now + 1
    /\ record' = [k \in Keys |-> IF Expired(recExp[k], now') THEN NoJob ELSE record[k]]
    /\ recExp' = [k \in Keys |-> IF Expired(recExp[k], now') THEN 0 ELSE recExp[k]]
    /\ abortExp' = [k \in Keys |-> IF Expired(abortExp[k], now') THEN 0 ELSE abortExp[k]]
    /\ schedLock' = IF Expired(schedLock, now') THEN 0 ELSE schedLock
    /\ sweepLock' = IF Expired(sweepLock, now') THEN 0 ELSE sweepLock
    /\ UNCHANGED <<incomplete, queued, active, chan, pc, job, cur, todo, swept, counters, last, got, ops>>
    /\ UNCHANGED ext

\* ----------------------------------------------------------------- enqueue
\* Mutants of the condition: one that forgets the ZSCORE test, one the EXISTS test.
EnqueueAllowedNoZscore(k) == abortExp[k] = 0
EnqueueAllowedNoMarker(k) == incomplete[k] = NoScore

\* The enqueue script's condition: not ZSCORE(incomplete, id) and EXISTS(abort_id) == 0.
EnqueueAllowed(k) == incomplete[k] = NoScore /\ abortExp[k] = 0

\* The enqueue script's RPUSH: only a job scheduled at 0 goes onto queued.
EnqueuePush(q, k, scheduled) == IF scheduled = 0 THEN Append(q, k) ELSE q

\* The enqueue script called with the serialized job j: under its condition it SETs
\* the record, ZADDs the id with the job's scheduled and RPUSHes it if that is 0.
EnqueueStore(j) ==
    IF EnqueueAllowed(j.key)
    THEN /\ record' = [record EXCEPT ![j.key] = serialize(j)]
         /\ recExp' = [recExp EXCEPT ![j.key] = 0]
         /\ incomplete' = [incomplete EXCEPT ![j.key] = j.scheduled]
         /\ queued' = EnqueuePush(queued, j.key, j.scheduled)
    ELSE UNCHANGED <<record, recExp, incomplete, queued>>

\* The enqueue script called with the serialized job j, and what enqueue returns:
\* the job, or None when the script returns nil.
EnqueueScript(c, j) ==
    /\ EnqueueStore(j)
    /\ job' = [job EXCEPT ![c] = IF EnqueueAllowed(j.key) THEN j ELSE NoJob]
    /\ got' = [got EXCEPT ![c] = IF EnqueueAllowed(j.key) THEN "enqueue" ELSE "none"]

\* The Job enqueue builds from a function name and keyword arguments, status QUEUED.
EnqueueJob(k, a) ==
    Job(k, QUEUED, NoError, a.scheduled, a.ttl, a.timeout, a.heartbeat, 0, 0, 0, 0)

\* Queue.enqueue with a function name on a handle with no before_enqueue callback:
\* a fresh Job, then the script.
Enqueue(c, k, a) ==
    /\ Begin(c, "enqueue")
    /\ before[c] = <<>>
    /\ EnqueueScript(c, EnqueueJob(k, a))
    /\ UNCHANGED <<now, active, abortExp, schedLock, sweepLock, chan, pc, cur, todo, swept, counters>>
    /\ UNCHANGED ext

\* ----------------------------------------------------------------- dequeue
\* Mutant: the element at the LEFT end.
DequeuePopLeft(q) == q[1]

\* BLMOVE queued active RIGHT LEFT (BRPOPLPUSH on older servers): the element popped.
DequeuePop(q) == q[Len(q)]
DequeueRest(q) == SubSeq(q, 1, Len(q) - 1)

\* Queue.dequeue, the move: the popped id goes to the head of active.
DequeueMove(c) ==
    /\ Begin(c, "dequeue")
    /\ queued # <<>>
    /\ cur' = [cur EXCEPT ![c] = DequeuePop(queued)]
    /\ queued' = DequeueRest(queued)
    /\ active' = <<DequeuePop(queued)>> \o active
    /\ pc' = [pc EXCEPT ![c] = "dequeue_get"]
    /\ UNCHANGED <<now, incomplete, record, recExp, abortExp, schedLock, sweepLock, chan, job, todo, swept, counters, got>>
    /\ UNCHANGED ext

\* Queue.dequeue, then _get_job_by_id: GET the record and deserialize it.
DequeueGet(c) ==
    /\ pc[c] = "dequeue_get"
    /\ job' = [job EXCEPT ![c] = deserialize(record[cur[c]])]
    /\ got' = [got EXCEPT ![c] = IF record[cur[c]] = NoJob THEN "none" ELSE "dequeue"]
    /\ cur' = [cur EXCEPT ![c] = NoKey]
    /\ pc' = [pc EXCEPT ![c] = "idle"]
    /\ UNCHANGED <<now, store, chan, todo, swept, counters, last, ops>>
    /\ UNCHANGED ext

\* Queue.dequeue with a positive timeout and nothing queued: None.
DequeueTimeout(c) ==
    /\ Begin(c, "dequeue")
    /\ queued = <<>>
    /\ job' = [job EXCEPT ![c] = NoJob]
    /\ got' = [got EXCEPT ![c] = "none"]
    /\ UNCHANGED <<now, store, chan, pc, cur, todo, swept, counters>>
    /\ UNCHANGED ext

\* ------------------------------------------------------------------ notify
\* Mutant: the status published twice.
PublishTwice(ch, j) == [ch EXCEPT ![j.key] = Append(Append(@, j.status), j.status)]

\* Queue.notify: PUBLISH job.id job.status.
Publish(ch, j) == [ch EXCEPT ![j.key] = Append(@, j.status)]

\* The notify that ends update: the worker goes on with its job.
Notify(c) ==
    /\ pc[c] = "notify"
    /\ chan' = Publish(chan, job[c])
    /\ pc' = [pc EXCEPT ![c] = "idle"]
    /\ UNCHANGED <<now, store, job, cur, todo, swept, counters, last, got, ops>>
    /\ UNCHANGED ext

\* The notify that ends finish and retry: the caller has resolved its job
\* (exactly one of finish, retry, abort per job object) and lets go of it.
NotifyDone(c) ==
    /\ pc[c] = "notify_done"
    /\ chan' = Publish(chan, job[c])
    /\ pc' = [pc EXCEPT ![c] = "idle"]
    /\ job' = [job EXCEPT ![c] = NoJob]
    /\ got' = [got EXCEPT ![c] = "none"]
    /\ UNCHANGED <<now, store, cur, todo, swept, counters, last, ops>>
    /\ UNCHANGED ext

\* ------------------------------------------------------------------ finish
\* finish's local part: status, error, completed; progress 1 when COMPLETE.
Finished(j, status, error) ==
    [j EXCEPT !.status = status, !.error = error, !.completed = now,
              !.progress = IF status = COMPLETE THEN 1 ELSE @]

\* finish's transaction, the lists: LREM active 1 id, ZREM incomplete id.
FinishActive(act, k) == LRemFirst(act, k)
FinishIncomplete(inc, k) == [inc EXCEPT ![k] = NoScore]

\* Mutant: the transaction deletes the record in every branch.
FinishRecordDropped(j) == NoJob

\* finish's transaction, the record: SETEX if ttl > 0, SET if ttl = 0, DEL otherwise.
FinishRecord(j) == IF j.ttl >= 0 THEN serialize(j) ELSE NoJob
\* Mutant: SET where SETEX is due, a record that never expires.
FinishExpiryNever(j) == 0
FinishExpiry(j) == IF j.ttl > 0 THEN now + j.ttl ELSE 0

\* finish's counters.
Counted(cnt, status) ==
    IF status = COMPLETE THEN [cnt EXCEPT !.complete = @ + 1]
    ELSE IF status = FAILED THEN [cnt EXCEPT !.failed = @ + 1]
    ELSE IF status = ABORTED THEN [cnt EXCEPT !.aborted = @ + 1]
    ELSE cnt

\* finish up to and including pipe.execute(), on the job object j of client c.
FinishTxn(c, j, status, error) ==
    LET f == Finished(j, status, error)
    IN /\ job' = [job EXCEPT ![c] = f]
       /\ active' = FinishActive(active, f.key)
       /\ incomplete' = FinishIncomplete(incomplete, f.key)
       /\ record' = [record EXCEPT ![f.key] = FinishRecord(f)]
       /\ recExp' = [recExp EXCEPT ![f.key] = FinishExpiry(f)]
       /\ counters' = [counters EXCEPT ![c] = Counted(@, status)]

\* A worker finishes the job it holds: Queue.finish, its notify still to come.
Finish(c, status, error) ==
    /\ Begin(c, "finish")
    /\ got[c] = "dequeue"
    /\ FinishTxn(c, job[c], status, error)
    /\ pc' = [pc EXCEPT ![c] = "notify_done"]
    /\ UNCHANGED <<now, queued, abortExp, schedLock, sweepLock, chan, cur, todo, swept, got>>
    /\ UNCHANGED ext

\* ------------------------------------------------------------ job, update
\* The web UI's retry and abort handlers, their first half, _get_job: Queue.job
\* GETs the record of the key and deserializes it; no job, no retry or abort.
WebGetJob(c, k, handler) ==
    /\ Begin(c, handler)
    /\ job' = [job EXCEPT ![c] = deserialize(record[k])]
    /\ got' = [got EXCEPT ![c] = IF record[k] = NoJob THEN "none" ELSE "job"]
    /\ pc' = [pc EXCEPT ![c] = IF record[k] = NoJob THEN "idle" ELSE handler]
    /\ UNCHANGED <<now, store, chan, cur, todo, swept, counters>>
    /\ UNCHANGED ext

\* Queue.update up to the SET: touched = now, the record rewritten without expiry.
UpdateSet(c, j) ==
    LET u == [j EXCEPT !.touched = now]
    IN /\ job' = [job EXCEPT ![c] = u]
       /\ record' = [record EXCEPT ![u.key] = serialize(u)]
       /\ recExp' = [recExp EXCEPT ![u.key] = 0]
       /\ pc' = [pc EXCEPT ![c] = "notify"]
       /\ UNCHANGED <<now, incomplete, queued, active, abortExp, schedLock, sweepLock,
                      chan, cur, todo, swept, counters, got>>

\* The worker takes up the job it dequeued: status ACTIVE, started = now, then update.
WorkerStart(c) ==
    /\ Begin(c, "update")
    /\ got[c] = "dequeue"
    /\ job[c].status = QUEUED
    /\ UpdateSet(c, [job[c] EXCEPT !.status = ACTIVE, !.started = now])
    /\ UNCHANGED ext

\* The worker's heartbeat on the job it runs: Queue.update.
Update(c) ==
    /\ Begin(c, "update")
    /\ got[c] = "dequeue"
    /\ job[c].status = ACTIVE
    /\ UpdateSet(c, job[c])
    /\ UNCHANGED ext

\* ------------------------------------------------------------------- retry
\* retry's local part: QUEUED, the error, completed/started/progress cleared.
Retried(j, error) ==
    [j EXCEPT !.status = QUEUED, !.error = error, !.completed = 0, !.started = 0,
              !.progress = 0, !.touched = now]

\* retry's ZADD: now + delay when there is a delay, else the job's own scheduled.
RetryScore(j, delay) == IF delay # 0 THEN now + delay ELSE j.scheduled

\* retry's lists: LREM active 1, LREM queued 1, and RPUSH queued when there is no delay.
RetryQueued(q, k, delay) ==
    IF delay # 0 THEN LRemFirst(q, k) ELSE Append(LRemFirst(q, k), k)

\* Queue.retry up to pipe.execute() and the counter; its notify still to come.
RetryTxn(c, error, delay) ==
    /\ LET r == Retried(job[c], error)
       IN /\ job' = [job EXCEPT ![c] = r]
          /\ active' = LRemFirst(active, r.key)
          /\ queued' = RetryQueued(queued, r.key, delay)
          /\ incomplete' = [incomplete EXCEPT ![r.key] = RetryScore(r, delay)]
          /\ record' = [record EXCEPT ![r.key] = serialize(r)]
          /\ recExp' = [recExp EXCEPT ![r.key] = 0]
    /\ counters' = [counters EXCEPT ![c].retried = @ + 1]
    /\ pc' = [pc EXCEPT ![c] = "notify_done"]
    /\ UNCHANGED <<now, abortExp, schedLock, sweepLock, chan, cur, todo, swept, got>>

\* A worker retries the job it dequeued.
Retry(c, error, delay) ==
    /\ Begin(c, "retry")
    /\ got[c] = "dequeue"
    /\ RetryTxn(c, error, delay)
    /\ UNCHANGED ext

\* The web UI's retry handler, its second half: job.retry("retried from ui").
WebRetry(c, delay) ==
    /\ pc[c] = "web_retry"
    /\ RetryTxn(c, "retried from ui", delay)
    /\ UNCHANGED <<last, ops>>
    /\ UNCHANGED ext

\* ------------------------------------------------------------------- abort
\* Queue.abort, the transaction: LREM queued 0, ZREM incomplete, EXPIRE record ttl+1,
\* SETEX abort marker ttl. dequeued is what the LREM removed.
AbortTxn(c, error, ttl) ==
    /\ LET k == job[c].key IN
       /\ queued' = LRemAll(queued, k)
       /\ incomplete' = [incomplete EXCEPT ![k] = NoScore]
       /\ recExp' = [recExp EXCEPT ![k] = IF record[k] # NoJob THEN now + ttl + 1 ELSE @]
       /\ abortExp' = [abortExp EXCEPT ![k] = now + ttl]
       /\ pc' = [pc EXCEPT ![c] = IF Count(queued, k) # 0 THEN "abort_finish" ELSE "abort_lrem"]
    /\ job' = [job EXCEPT ![c].error = error]
    /\ UNCHANGED <<now, active, record, schedLock, sweepLock, chan, cur, todo, swept, counters, got>>

\* The holder of a job object (the producer that enqueued it, the worker that
\* dequeued it) aborts it.
Abort(c, error, ttl) ==
    /\ Begin(c, "abort")
    /\ got[c] \in {"enqueue", "dequeue"}
    /\ AbortTxn(c, error, ttl)
    /\ UNCHANGED ext

\* The web UI's abort handler, its second half: job.abort("aborted from ui"). Job.abort
\* takes no argument besides self, so the call raises TypeError before it reaches
\* Queue.abort: the handler ends with the store as it was.
WebAbort(c) ==
    /\ pc[c] = "web_abort"
    /\ pc' = [pc EXCEPT ![c] = "idle"]
    /\ job' = [job EXCEPT ![c] = NoJob]
    /\ got' = [got EXCEPT ![c] = "none"]
    /\ UNCHANGED <<now, store, chan, cur, todo, swept, counters, last, ops>>
    /\ UNCHANGED ext

\* Mutant: the abort goes on without finishing the job.
AbortFinishSkipped(c) ==
    /\ pc[c] = "abort_finish"
    /\ pc' = [pc EXCEPT ![c] = "abort_notify"]
    /\ UNCHANGED <<now, store, chan, job, cur, todo, swept, counters, last, got, ops>>
    /\ UNCHANGED ext

\* abort of a job that was queued: job.finish(ABORTED, error), the transaction.
AbortFinish(c) ==
    /\ pc[c] = "abort_finish"
    /\ FinishTxn(c, job[c], ABORTED, job[c].error)
    /\ pc' = [pc EXCEPT ![c] = "abort_notify"]
    /\ UNCHANGED <<now, queued, abortExp, schedLock, sweepLock, chan, cur, todo, swept, last, got, ops>>
    /\ UNCHANGED ext

\* abort of a job that was queued: the notify of that finish.
AbortNotify(c) ==
    /\ pc[c] = "abort_notify"
    /\ chan' = Publish(chan, job[c])
    /\ pc' = [pc EXCEPT ![c] = "abort_delete"]
    /\ UNCHANGED <<now, store, job, cur, todo, swept, counters, last, got, ops>>
    /\ UNCHANGED ext

\* abort of a job that was queued: DEL abort marker.
AbortDelete(c) ==
    /\ pc[c] = "abort_delete"
    /\ abortExp' = [abortExp EXCEPT ![job[c].key] = 0]
    /\ pc' = [pc EXCEPT ![c] = "idle"]
    /\ job' = [job EXCEPT ![c] = NoJob]
    /\ got' = [got EXCEPT ![c] = "none"]
    /\ UNCHANGED <<now, incomplete, queued, active, record, recExp, schedLock, sweepLock,
                   chan, cur, todo, swept, counters, last, ops>>
    /\ UNCHANGED ext

\* abort of a job that was not queued: LREM active 0.
AbortLrem(c) ==
    /\ pc[c] = "abort_lrem"
    /\ active' = LRemAll(active, job[c].key)
    /\ pc' = [pc EXCEPT ![c] = "idle"]
    /\ job' = [job EXCEPT ![c] = NoJob]
    /\ got' = [got EXCEPT ![c] = "none"]
    /\ UNCHANGED <<now, incomplete, queued, record, recExp, abortExp, schedLock, sweepLock,
                   chan, cur, todo, swept, counters, last, ops>>
    /\ UNCHANGED ext

\* ---------------------------------------------------------------- schedule
\* ZRANGEBYSCORE incomplete 1 now: the due keys, by score and then by name.
Due == {k \in Keys : incomplete[k] >= 1 /\ incomplete[k] <= now}

\* Mutant: the script without its EXISTS test.
ScheduleLockIgnored == TRUE

\* The schedule script's condition: EXISTS(schedule key) == 0.
ScheduleLockFree == schedLock = 0

RECURSIVE ByScore(_)
ByScore(S) ==
    IF S = {} THEN <<>>
    ELSE LET m == CHOOSE x \in S : \A y \in S :
                      \/ incomplete[x] < incomplete[y]
                      \/ incomplete[x] = incomplete[y] /\ KeyRank(x) <= KeyRank(y)
         IN <<m>> \o ByScore(S \ {m})

\* Queue.schedule: the script. With the lock free: take it, re-score the due jobs
\* to 0 and RPUSH them; with the lock held: nothing.
Schedule(c, lock) ==
    /\ Begin(c, "schedule")
    /\ IF ScheduleLockFree
       THEN /\ schedLock' = now + lock
            /\ incomplete' = [k \in Keys |-> IF k \in Due THEN 0 ELSE incomplete[k]]
            /\ queued' = queued \o ByScore(Due)
       ELSE UNCHANGED <<schedLock, incomplete, queued>>
    /\ UNCHANGED <<now, active, record, recExp, abortExp, sweepLock, chan, pc, job, cur,
                   todo, swept, counters, got>>
    /\ UNCHANGED ext

\* ------------------------------------------------------------------- sweep
\* Mutant: no job is ever stuck.
stuckNever(j) == FALSE

\* Job.stuck
stuck(j) ==
    /\ j.status = ACTIVE
    /\ \/ now - j.started > j.timeout
       \/ j.heartbeat # 0 /\ now - j.touched > j.heartbeat

\* Queue.sweep, the script: with the lock free, take it and read the active list;
\* with the lock held, or nothing active, the sweep returns [].
SweepScriptRun(c, lock) ==
    /\ swept' = [swept EXCEPT ![c] = <<>>]
    /\ IF sweepLock = 0
       THEN /\ sweepLock' = now + lock
            /\ todo' = [todo EXCEPT ![c] = [i \in 1..Len(active) |-> <<active[i], NoJob>>]]
            /\ pc' = [pc EXCEPT ![c] = IF active # <<>> THEN "sweep_mget" ELSE "idle"]
       ELSE UNCHANGED <<sweepLock, todo, pc>>
    /\ UNCHANGED <<now, incomplete, queued, active, record, recExp, abortExp, schedLock,
                   chan, job, cur, counters, got>>

SweepScript(c, lock) ==
    /\ Begin(c, "sweep")
    /\ SweepScriptRun(c, lock)
    /\ UNCHANGED ext

\* A worker's sweep timer: sweep called again and again, for as long as the worker lives.
SweepTimer(c, lock) ==
    /\ pc[c] = "idle"
    /\ last' = [last EXCEPT ![c] = "sweep"]
    /\ UNCHANGED ops
    /\ SweepScriptRun(c, lock)
    /\ UNCHANGED ext

\* Queue.sweep, the MGET of the ids read.
SweepMget(c) ==
    /\ pc[c] = "sweep_mget"
    /\ todo' = [todo EXCEPT ![c] = [i \in 1..Len(@) |-> <<@[i][1], record[@[i][1]]>>]]
    /\ pc' = [pc EXCEPT ![c] = "sweep_loop"]
    /\ UNCHANGED <<now, store, chan, job, cur, swept, counters, last, got, ops>>
    /\ UNCHANGED ext

\* Whether sweep aborts a job whose record it read.
Sweepable(j) == j.status # ACTIVE \/ stuck(j)

\* Queue.sweep, one turn of the loop: a missing record is removed from active and
\* incomplete; a job that is not ACTIVE, or is stuck, is finished as ABORTED (its
\* notify still to come); any other is left alone.
SweepItem(c) ==
    /\ pc[c] = "sweep_loop"
    /\ LET id == Head(todo[c])[1]
           j == deserialize(Head(todo[c])[2])
           final == Tail(todo[c]) = <<>>
       IN IF j = NoJob
          THEN /\ swept' = [swept EXCEPT ![c] = Append(@, id)]
               /\ active' = LRemAll(active, id)
               /\ incomplete' = [incomplete EXCEPT ![id] = NoScore]
               /\ todo' = [todo EXCEPT ![c] = Tail(@)]
               /\ pc' = [pc EXCEPT ![c] = IF final THEN "idle" ELSE "sweep_loop"]
               /\ UNCHANGED <<record, recExp, job, counters>>
          ELSE IF Sweepable(j)
          THEN /\ swept' = [swept EXCEPT ![c] = Append(@, id)]
               /\ FinishTxn(c, j, ABORTED, "swept")
               /\ pc' = [pc EXCEPT ![c] = "sweep_notify"]
               /\ UNCHANGED todo
          ELSE /\ todo' = [todo EXCEPT ![c] = Tail(@)]
               /\ pc' = [pc EXCEPT ![c] = IF final THEN "idle" ELSE "sweep_loop"]
               /\ UNCHANGED <<swept, active, incomplete, record, recExp, job, counters>>
    /\ UNCHANGED <<now, queued, abortExp, schedLock, sweepLock, chan, cur, last, got, ops>>
    /\ UNCHANGED ext

\* Queue.sweep, the notify of the finish; then the next id, or the end.
SweepNotify(c) ==
    /\ pc[c] = "sweep_notify"
    /\ chan' = Publish(chan, job[c])
    /\ todo' = [todo EXCEPT ![c] = Tail(@)]
    /\ pc' = [pc EXCEPT ![c] = IF Tail(todo[c]) = <<>> THEN "idle" ELSE "sweep_loop"]
    /\ job' = [job EXCEPT ![c] = NoJob]
    /\ got' = [got EXCEPT ![c] = "none"]
    /\ UNCHANGED <<now, store, cur, swept, counters, last, ops>>
    /\ UNCHANGED ext

\* --------------------------------------------------- before_enqueue, batch
\* The callbacks a handle can have registered: two of the application's, and the
\* track_child of the handle's batch scope.
Callbacks == {"cb1", "cb2", "track_child"}

\* The callbacks that can raise: track_child only adds to a set.
CanRaise == {"cb1", "cb2"}

\* _before_enqueues[id(callback)] = callback: a dict keeps insertion order, and
\* assigning to a key it has leaves the key where it is.
Registered(reg, cb) ==
    IF \E i \in 1..Len(reg) : reg[i] = cb THEN reg ELSE Append(reg, cb)

\* _before_enqueues.pop(id(callback), None).
Unregistered(reg, cb) == SelectSeq(reg, LAMBDA x : x # cb)

\* Queue.register_before_enqueue, called by the application.
Register(c, cb) ==
    /\ Begin(c, "register")
    /\ before' = [before EXCEPT ![c] = Registered(@, cb)]
    /\ UNCHANGED <<now, store, chan, pc, job, cur, todo, swept, counters, got>>
    /\ UNCHANGED <<cbs, ran, raised, scope, children, called, listen, subAt, mapKeys, mapLeft>>

\* Queue.unregister_before_enqueue, called by the application.
Unregister(c, cb) ==
    /\ Begin(c, "unregister")
    /\ before' = [before EXCEPT ![c] = Unregistered(@, cb)]
    /\ UNCHANGED <<now, store, chan, pc, job, cur, todo, swept, counters, got>>
    /\ UNCHANGED <<cbs, ran, raised, scope, children, called, listen, subAt, mapKeys, mapLeft>>

\* Queue.enqueue up to _before_enqueue: the Job is built and its status set, the
\* callbacks are the values of _before_enqueues.
EnqueueCall(c, k, a) ==
    /\ Begin(c, "enqueue")
    /\ job' = [job EXCEPT ![c] = EnqueueJob(k, a)]
    /\ got' = [got EXCEPT ![c] = "none"]
    /\ cbs' = [cbs EXCEPT ![c] = before[c]]
    /\ ran' = [ran EXCEPT ![c] = <<>>]
    /\ raised' = [raised EXCEPT ![c] = "none"]
    /\ pc' = [pc EXCEPT ![c] = "before_enqueue"]
    /\ UNCHANGED <<now, store, chan, cur, todo, swept, counters>>
    /\ UNCHANGED <<before, scope, children, called, listen, subAt, mapKeys, mapLeft>>

\* Mutant: track_child records nothing.
TrackedNothing(set, cb, j) == set

\* What awaiting a callback does to the batch's children: track_child adds the job.
Tracked(set, cb, j) == IF cb = "track_child" THEN set \cup {j} ELSE set

\* _before_enqueue, one turn of its loop: the next callback is awaited and returns.
CallbackReturn(c) ==
    /\ pc[c] = "before_enqueue"
    /\ cbs[c] # <<>>
    /\ ran' = [ran EXCEPT ![c] = Append(@, Head(cbs[c]))]
    /\ cbs' = [cbs EXCEPT ![c] = Tail(@)]
    /\ children' = [children EXCEPT ![c] = Tracked(@, Head(cbs[c]), job[c])]
    /\ UNCHANGED <<now, store, chan, pc, job, cur, todo, swept, counters, last, got, ops>>
    /\ UNCHANGED <<before, raised, scope, called, listen, subAt, mapKeys, mapLeft>>

\* Mutant: the loop goes on to the next callback after one raised.
CallbackRaiseSwallowed(c) ==
    /\ pc[c] = "before_enqueue"
    /\ cbs[c] # <<>>
    /\ Head(cbs[c]) \in CanRaise
    /\ ran' = [ran EXCEPT ![c] = Append(@, Head(cbs[c]))]
    /\ cbs' = [cbs EXCEPT ![c] = Tail(@)]
    /\ raised' = [raised EXCEPT ![c] = "callback"]
    /\ UNCHANGED <<now, store, chan, pc, job, cur, todo, swept, counters, last, got, ops>>
    /\ UNCHANGED <<before, scope, children, called, listen, subAt, mapKeys, mapLeft>>

\* _before_enqueue, one turn of its loop: the next callback is awaited and raises.
\* Nothing catches it in _before_enqueue or enqueue: the call ends with it.
CallbackRaise(c) ==
    /\ pc[c] = "before_enqueue"
    /\ cbs[c] # <<>>
    /\ Head(cbs[c]) \in CanRaise
    /\ ran' = [ran EXCEPT ![c] = Append(@, Head(cbs[c]))]
    /\ cbs' = [cbs EXCEPT ![c] = <<>>]
    /\ raised' = [raised EXCEPT ![c] = "callback"]
    /\ job' = [job EXCEPT ![c] = NoJob]
    /\ pc' = [pc EXCEPT ![c] = "idle"]
    /\ UNCHANGED <<now, store, chan, cur, todo, swept, counters, last, got, ops>>
    /\ UNCHANGED <<before, scope, children, called, listen, subAt, mapKeys, mapLeft>>

\* Queue.enqueue after _before_enqueue returned: the script.
EnqueueRun(c) ==
    /\ pc[c] = "before_enqueue"
    /\ cbs[c] = <<>>
    /\ EnqueueScript(c, job[c])
    /\ pc' = [pc EXCEPT ![c] = "idle"]
    /\ UNCHANGED <<now, active, abortExp, schedLock, sweepLock, chan, cur, todo, swept, counters, last, ops>>
    /\ UNCHANGED ext

\* Queue.batch, entering the scope: children is empty, track_child is registered.
BatchEnter(c) ==
    /\ Begin(c, "batch")
    /\ scope[c] = "none"
    /\ scope' = [scope EXCEPT ![c] = "open"]
    /\ children' = [children EXCEPT ![c] = {}]
    /\ called' = [called EXCEPT ![c] = {}]
    /\ raised' = [raised EXCEPT ![c] = "none"]
    /\ before' = [before EXCEPT ![c] = Registered(@, "track_child")]
    /\ UNCHANGED <<now, store, chan, pc, job, cur, todo, swept, counters, got>>
    /\ UNCHANGED <<cbs, ran, listen, subAt, mapKeys, mapLeft>>

\* The finally of batch: unregister_before_enqueue(track_child).
BatchUnregister(reg) == Unregistered(reg, "track_child")

\* The body of the scope ends without an exception: only the finally runs.
BatchExit(c) ==
    /\ pc[c] = "idle"
    /\ scope[c] = "open"
    /\ scope' = [scope EXCEPT ![c] = "none"]
    /\ raised' = [raised EXCEPT ![c] = "none"]
    /\ before' = [before EXCEPT ![c] = BatchUnregister(@)]
    /\ UNCHANGED <<now, store, chan, pc, job, cur, todo, swept, counters, last, got, ops>>
    /\ UNCHANGED <<cbs, ran, children, called, listen, subAt, mapKeys, mapLeft>>

\* The body of the scope raises (an exception of its own, or the one an enqueue
\* ended with): the except clause starts, one abort per child to be called.
BatchRaise(c) ==
    /\ pc[c] = "idle"
    /\ scope[c] = "open"
    /\ scope' = [scope EXCEPT ![c] = "aborting"]
    /\ raised' = [raised EXCEPT ![c] = "body"]
    /\ called' = [called EXCEPT ![c] = {}]
    /\ UNCHANGED <<now, store, chan, pc, job, cur, todo, swept, counters, last, got, ops>>
    /\ UNCHANGED <<before, cbs, ran, children, listen, subAt, mapKeys, mapLeft>>

\* The except clause, one of the gathered calls: abort(child, "cancelled"), with
\* abort's default ttl. The calls are taken one at a time, in any order.
BatchAbort(c) ==
    /\ pc[c] = "idle"
    /\ scope[c] = "aborting"
    /\ \E child \in children[c] \ called[c], t \in AbortTtl :
          /\ called' = [called EXCEPT ![c] = @ \cup {child}]
          /\ queued' = LRemAll(queued, child.key)
          /\ incomplete' = [incomplete EXCEPT ![child.key] = NoScore]
          /\ recExp' = [recExp EXCEPT ![child.key] = IF record[child.key] # NoJob THEN now + t + 1 ELSE @]
          /\ abortExp' = [abortExp EXCEPT ![child.key] = now + t]
          /\ pc' = [pc EXCEPT ![c] = IF Count(queued, child.key) # 0 THEN "abort_finish" ELSE "abort_lrem"]
          /\ job' = [job EXCEPT ![c] = [child EXCEPT !.error = "cancelled"]]
    /\ got' = [got EXCEPT ![c] = "enqueue"]
    /\ UNCHANGED <<now, active, record, schedLock, sweepLock, chan, cur, todo, swept, counters, last, ops>>
    /\ UNCHANGED <<before, cbs, ran, raised, scope, children, listen, subAt, mapKeys, mapLeft>>

\* One of the gathered calls raises (the connection fails) before it changes the
\* store: return_exceptions=True keeps the exception as that call's result.
BatchAbortFails(c) ==
    /\ pc[c] = "idle"
    /\ scope[c] = "aborting"
    /\ \E child \in children[c] \ called[c] :
          called' = [called EXCEPT ![c] = @ \cup {child}]
    /\ UNCHANGED <<now, store, chan, pc, job, cur, todo, swept, counters, last, got, ops>>
    /\ UNCHANGED <<before, cbs, ran, raised, scope, children, listen, subAt, mapKeys, mapLeft>>

\* The gather is over: raise re-raises the body's exception, and the finally runs.
BatchReraise(c) ==
    /\ pc[c] = "idle"
    /\ scope[c] = "aborting"
    /\ called[c] = children[c]
    /\ scope' = [scope EXCEPT ![c] = "none"]
    /\ before' = [before EXCEPT ![c] = BatchUnregister(@)]
    /\ UNCHANGED <<now, store, chan, pc, job, cur, todo, swept, counters, last, got, ops>>
    /\ UNCHANGED <<cbs, ran, raised, children, called, listen, subAt, mapKeys, mapLeft>>

\* ------------------------------------------------------------ specification
Next ==
    \/ Tick
    \/ \E c \in Clients, k \in Keys, a \in JobArgs : Enqueue(c, k, a)
    \/ \E c \in Clients : DequeueMove(c)
    \/ \E c \in Clients : DequeueGet(c)
    \/ \E c \in Clients : DequeueTimeout(c)
    \/ \E c \in Clients, k \in Keys, h \in {"web_retry", "web_abort"} : WebGetJob(c, k, h)
    \/ \E c \in Clients, d \in RetryDelay : WebRetry(c, d)
    \/ \E c \in Clients : WebAbort(c)
    \/ \E c \in Clients : WorkerStart(c)
    \/ \E c \in Clients : Update(c)
    \/ \E c \in Clients, s \in TERMINAL_STATUSES, e \in WorkerErrors : Finish(c, s, e)
    \/ \E c \in Clients, e \in WorkerErrors, d \in RetryDelay : Retry(c, e, d)
    \/ \E c \in Clients : Notify(c)
    \/ \E c \in Clients : NotifyDone(c)
    \/ \E c \in Clients, e \in WorkerErrors, t \in AbortTtl : Abort(c, e, t)
    \/ \E c \in Clients : AbortFinish(c)
    \/ \E c \in Clients : AbortNotify(c)
    \/ \E c \in Clients : AbortDelete(c)
    \/ \E c \in Clients : AbortLrem(c)
    \/ \E c \in Clients, l \in ScheduleLock : Schedule(c, l)
    \/ \E c \in Clients, l \in SweepLock : SweepScript(c, l)
    \/ \E c \in Clients : SweepMget(c)
    \/ \E c \in Clients : SweepItem(c)
    \/ \E c \in Clients : SweepNotify(c)

Spec == Init /\ [][Next]_vars

\* A state Spec reaches (see C3): at time 2 a job scheduled for 2 was enqueued, retried
\* from the web UI without delay (RPUSH, score 2 again) and then promoted by schedule
\* (RPUSH once more): its id is queued twice. The operation budget starts afresh.
InitPromotedTwice ==
    /\ now = 2
    /\ incomplete = [k \in Keys |-> IF k = "a" THEN 0 ELSE NoScore]
    /\ queued = <<"a", "a">>
    /\ active = <<>>
    /\ record = [k \in Keys |-> IF k = "a"
                    THEN Job("a", QUEUED, "retried from ui", 2, 0, 0, 0, 0, 2, 0, 0)
                    ELSE NoJob]
    /\ recExp = [k \in Keys |-> 0]
    /\ abortExp = [k \in Keys |-> 0]
    /\ schedLock = 3
    /\ sweepLock = 0
    /\ chan = [k \in Keys |-> IF k = "a" THEN <<QUEUED>> ELSE <<>>]
    /\ pc = [c \in Clients |-> "idle"]
    /\ job = [c \in Clients |-> NoJob]
    /\ cur = [c \in Clients |-> NoKey]
    /\ todo = [c \in Clients |-> <<>>]
    /\ swept = [c \in Clients |-> <<>>]
    /\ counters = [c \in Clients |-> [complete |-> 0, failed |-> 0,
                                       retried |-> IF c = "c1" THEN 1 ELSE 0, aborted |-> 0]]
    /\ last = [c \in Clients |-> IF c = "c1" THEN "web_retry" ELSE "schedule"]
    /\ got = [c \in Clients |-> "none"]
    /\ ops = 0
    /\ InitExt

SpecPromotedTwice == InitPromotedTwice /\ [][Next]_vars

\* ------------------------------------------------------------ crashed worker
\* A state Spec reaches: job "a" (scheduled = 0) was enqueued and dequeued at time 1,
\* and its worker died, either at once (the record still QUEUED) or after it had
\* marked the job ACTIVE with its first update; the process and its job object are
\* gone. The clients are the workers that live on.
InitCrashed ==
    \E a \in {x \in JobArgs : x.scheduled = 0}, begun \in BOOLEAN :
        /\ now = 1
        /\ incomplete = [k \in Keys |-> IF k = "a" THEN 0 ELSE NoScore]
        /\ queued = <<>>
        /\ active = <<"a">>
        /\ record = [k \in Keys |-> IF k = "a"
                        THEN Job("a", IF begun THEN ACTIVE ELSE QUEUED, NoError, 0, a.ttl,
                                 a.timeout, a.heartbeat, IF begun THEN 1 ELSE 0,
                                 IF begun THEN 1 ELSE 0, 0, 0)
                        ELSE NoJob]
        /\ recExp = [k \in Keys |-> 0]
        /\ abortExp = [k \in Keys |-> 0]
        /\ schedLock = 0
        /\ sweepLock = 0
        /\ chan = [k \in Keys |-> IF k = "a" /\ begun THEN <<ACTIVE>> ELSE <<>>]
        /\ pc = [c \in Clients |-> "idle"]
        /\ job = [c \in Clients |-> NoJob]
        /\ cur = [c \in Clients |-> NoKey]
        /\ todo = [c \in Clients |-> <<>>]
        /\ swept = [c \in Clients |-> <<>>]
        /\ counters = [c \in Clients |-> [complete |-> 0, failed |-> 0, retried |-> 0, aborted |-> 0]]
        /\ last = [c \in Clients |-> "none"]
        /\ got = [c \in Clients |-> "none"]
        /\ ops = 0
        /\ InitExt

\* Nobody holds the job any more: time passes and the living workers sweep.
NextCrashed ==
    \/ Tick
    \/ \E c \in Clients, l \in SweepLock : SweepTimer(c, l)
    \/ \E c \in Clients : SweepMget(c)
    \/ \E c \in Clients : SweepItem(c)
    \/ \E c \in Clients : SweepNotify(c)

\* Time advances, every worker's timer keeps calling sweep, and a sweep that has
\* begun runs to its end.
SpecCrashed ==
    /\ InitCrashed /\ [][NextCrashed]_vars
    /\ WF_vars(Tick)
    /\ \A c \in Clients :
          /\ WF_vars(\E l \in SweepLock : SweepTimer(c, l))
          /\ WF_vars(SweepMget(c))
          /\ WF_vars(SweepItem(c))
          /\ WF_vars(SweepNotify(c))

\* ---------------------------------------------------- batch and callbacks
\* Producers that register callbacks, enqueue through them and open batch scopes,
\* next to workers that dequeue.
NextBatch ==
    \/ \E c \in Clients, cb \in CanRaise : Register(c, cb)
    \/ \E c \in Clients, cb \in CanRaise : Unregister(c, cb)
    \/ \E c \in Clients, k \in Keys, a \in JobArgs : EnqueueCall(c, k, a)
    \/ \E c \in Clients : CallbackReturn(c)
    \/ \E c \in Clients : CallbackRaise(c)
    \/ \E c \in Clients : EnqueueRun(c)
    \/ \E c \in Clients : BatchEnter(c)
    \/ \E c \in Clients : BatchExit(c)
    \/ \E c \in Clients : BatchRaise(c)
    \/ \E c \in Clients : BatchAbort(c)
    \/ \E c \in Clients : BatchAbortFails(c)
    \/ \E c \in Clients : BatchReraise(c)
    \/ \E c \in Clients : AbortFinish(c)
    \/ \E c \in Clients : AbortNotify(c)
    \/ \E c \in Clients : AbortDelete(c)
    \/ \E c \in Clients : AbortLrem(c)
    \/ \E c \in Clients : DequeueMove(c)
    \/ \E c \in Clients : DequeueGet(c)

SpecBatch == Init /\ [][NextBatch]_vars

\* Whether track_child is among the callbacks of a handle.
Tracking(reg) == \E i \in 1..Len(reg) : reg[i] = "track_child"

\* Another task of the process, not inside the scope, enqueues a job on the handle
\* while the scope is open (the scope's task is waiting): the whole of Queue.enqueue,
\* with the handle's callbacks all returning, then the script. Its Job is its own.
OtherTaskEnqueue(c, k, a) ==
    /\ scope[c] = "open"
    /\ ops < MaxOps
    /\ ops' = ops + 1
    /\ children' = [children EXCEPT ![c] =
                       IF Tracking(before[c]) THEN Tracked(@, "track_child", EnqueueJob(k, a)) ELSE @]
    /\ EnqueueStore(EnqueueJob(k, a))
    /\ UNCHANGED <<now, active, abortExp, schedLock, sweepLock, chan, pc, job, cur, todo, swept,
                   counters, last, got>>
    /\ UNCHANGED <<before, cbs, ran, raised, scope, called, listen, subAt, mapKeys, mapLeft>>

\* The producers and workers of NextBatch, and the other tasks of the producers.
NextShared ==
    \/ NextBatch
    \/ \E c \in Clients, k \in Keys, a \in JobArgs : OtherTaskEnqueue(c, k, a)

SpecShared == Init /\ [][NextShared]_vars

\* --------------------------------------------------------------------- map
\* The sets of keys a map is called for (job_keys, one key per job).
MapKeySets == {{"a"}, {"a", "b"}}

\* Queue.map up to its first await, on a handle with no before_enqueue callback and
\* with no timeout: create_task makes the listen task, gather makes one enqueue task
\* per job; none of them has run yet.
MapStart(c, ks) ==
    /\ Begin(c, "map")
    /\ before[c] = <<>>
    /\ mapKeys' = [mapKeys EXCEPT ![c] = ks]
    /\ mapLeft' = [mapLeft EXCEPT ![c] = ks]
    /\ listen' = [listen EXCEPT ![c] = "pending"]
    /\ pc' = [pc EXCEPT ![c] = "map"]
    /\ job' = [job EXCEPT ![c] = NoJob]
    /\ got' = [got EXCEPT ![c] = "none"]
    /\ UNCHANGED <<now, store, chan, cur, todo, swept, counters>>
    /\ UNCHANGED <<before, cbs, ran, raised, scope, children, called, subAt>>

\* The listen task's SUBSCRIBE reaches the store: from now on the messages published
\* on the jobs' channels are delivered to it.
MapSubscribe(c) ==
    /\ pc[c] = "map"
    /\ listen[c] = "pending"
    /\ listen' = [listen EXCEPT ![c] = "subscribed"]
    /\ subAt' = [subAt EXCEPT ![c] = [k \in Keys |-> Len(chan[k])]]
    /\ UNCHANGED <<now, store, chan, pc, job, cur, todo, swept, counters, last, got, ops>>
    /\ UNCHANGED <<before, cbs, ran, raised, scope, children, called, mapKeys, mapLeft>>

\* One of the gathered enqueue tasks: its script reaches the store.
MapEnqueue(c, k, a) ==
    /\ pc[c] = "map"
    /\ k \in mapLeft[c]
    /\ mapLeft' = [mapLeft EXCEPT ![c] = @ \ {k}]
    /\ EnqueueScript(c, EnqueueJob(k, a))
    /\ UNCHANGED <<now, active, abortExp, schedLock, sweepLock, chan, pc, cur, todo, swept, counters, last, ops>>
    /\ UNCHANGED <<before, cbs, ran, raised, scope, children, called, listen, subAt, mapKeys>>

\* The messages the listen task has been delivered on the channel of key k.
Heard(c, k) == SubSeq(chan[k], subAt[c][k] + 1, Len(chan[k]))

\* map's callback has returned True: a terminal status was heard for every key
\* (pending_job_keys is empty), or an unsuccessful one for some key
\* (return_exceptions is False).
MapStop(c) ==
    \/ \A k \in mapKeys[c] : \E s \in TERMINAL_STATUSES : Count(Heard(c, k), s) > 0
    \/ \E k \in mapKeys[c], s \in {FAILED, ABORTED} : Count(Heard(c, k), s) > 0

\* The gather is over and the listen task has ended (its callback returned True, it
\* unsubscribed): map reads the jobs and returns their results.
MapReturn(c) ==
    /\ pc[c] = "map"
    /\ mapLeft[c] = {}
    /\ listen[c] = "subscribed"
    /\ MapStop(c)
    /\ listen' = [listen EXCEPT ![c] = "none"]
    /\ mapKeys' = [mapKeys EXCEPT ![c] = {}]
    /\ pc' = [pc EXCEPT ![c] = "idle"]
    /\ job' = [job EXCEPT ![c] = NoJob]
    /\ got' = [got EXCEPT ![c] = "none"]
    /\ UNCHANGED <<now, store, chan, cur, todo, swept, counters, last, ops>>
    /\ UNCHANGED <<before, cbs, ran, raised, scope, children, called, subAt, mapLeft>>

\* Producers that call map, next to workers that dequeue, run and finish the jobs.
NextMap ==
    \/ \E c \in Clients, ks \in MapKeySets : MapStart(c, ks)
    \/ \E c \in Clients : MapSubscribe(c)
    \/ \E c \in Clients, k \in Keys, a \in JobArgs : MapEnqueue(c, k, a)
    \/ \E c \in Clients : MapReturn(c)
    \/ \E c \in Clients : DequeueMove(c)
    \/ \E c \in Clients : DequeueGet(c)
    \/ \E c \in Clients : WorkerStart(c)
    \/ \E c \in Clients : Notify(c)
    \/ \E c \in Clients, s \in TERMINAL_STATUSES, e \in WorkerErrors : Finish(c, s, e)
    \/ \E c \in Clients : NotifyDone(c)

\* The event loop runs every task of a map that can run; the workers owe nothing.
SpecMap ==
    /\ Init /\ [][NextMap]_vars
    /\ \A c \in Clients :
          /\ WF_vars(MapSubscribe(c))
          /\ WF_vars(\E k \in Keys, a \in JobArgs : MapEnqueue(c, k, a))
          /\ WF_vars(MapReturn(c))

\* ------------------------------------------------- abort of a job not queued
\* A state Spec reaches: producer c1 enqueued job "a" at time 1 and still holds it; the
\* job was either scheduled for time 2 and is not promoted yet, or scheduled at 0 and
\* dequeued by a worker that died, at once (the record still QUEUED) or after its
\* first update (ACTIVE). Client c2 is a worker that lives on.
InitHeld ==
    \E a \in JobArgs, begun \in BOOLEAN :
        /\ a.scheduled # 0 => ~begun
        /\ now = 1
        /\ incomplete = [k \in Keys |-> IF k = "a" THEN a.scheduled ELSE NoScore]
        /\ queued = <<>>
        /\ active = IF a.scheduled = 0 THEN <<"a">> ELSE <<>>
        /\ record = [k \in Keys |-> IF k = "a"
                        THEN Job("a", IF begun THEN ACTIVE ELSE QUEUED, NoError, a.scheduled,
                                 a.ttl, a.timeout, a.heartbeat, IF begun THEN 1 ELSE 0,
                                 IF begun THEN 1 ELSE 0, 0, 0)
                        ELSE NoJob]
        /\ recExp = [k \in Keys |-> 0]
        /\ abortExp = [k \in Keys |-> 0]
        /\ schedLock = 0
        /\ sweepLock = 0
        /\ chan = [k \in Keys |-> IF k = "a" /\ begun THEN <<ACTIVE>> ELSE <<>>]
        /\ pc = [c \in Clients |-> "idle"]
        /\ job = [c \in Clients |-> IF c = "c1" THEN EnqueueJob("a", a) ELSE NoJob]
        /\ cur = [c \in Clients |-> NoKey]
        /\ todo = [c \in Clients |-> <<>>]
        /\ swept = [c \in Clients |-> <<>>]
        /\ counters = [c \in Clients |-> [complete |-> 0, failed |-> 0, retried |-> 0, aborted |-> 0]]
        /\ last = [c \in Clients |-> IF c = "c1" THEN "enqueue" ELSE "none"]
        /\ got = [c \in Clients |-> IF c = "c1" THEN "enqueue" ELSE "none"]
        /\ ops = 0
        /\ InitExt

\* The producer aborts the job; time passes and the workers sweep.
NextHeld ==
    \/ Tick
    \/ \E c \in Clients, e \in WorkerErrors, t \in AbortTtl : Abort(c, e, t)
    \/ \E c \in Clients : AbortLrem(c)
    \/ \E c \in Clients, l \in SweepLock : SweepTimer(c, l)
    \/ \E c \in Clients : SweepMget(c)
    \/ \E c \in Clients : SweepItem(c)
    \/ \E c \in Clients : SweepNotify(c)

\* Time advances, an abort that has begun runs to its end, every worker's timer keeps
\* calling sweep, and a sweep that has begun runs to its end.
SpecHeld ==
    /\ InitHeld /\ [][NextHeld]_vars
    /\ WF_vars(Tick)
    /\ \A c \in Clients :
          /\ WF_vars(AbortLrem(c))
          /\ WF_vars(\E l \in SweepLock : SweepTimer(c, l))
          /\ WF_vars(SweepMget(c))
          /\ WF_vars(SweepItem(c))
          /\ WF_vars(SweepNotify(c))

\* ------------------------------------------------------------------ claims
AllIdle == \A c \in Clients : pc[c] = "idle"

\* No retry and no abort has touched the queue: queued holds the ids in the order
\* their enqueues pushed them.
Undisturbed ==
    /\ \A c \in Clients :
          counters[c].retried = 0 /\ counters[c].aborted = 0 /\ last[c] \notin {"abort", "retry", "web_abort", "web_retry"}
    /\ \A k \in Keys : abortExp[k] = 0
    /\ \A i \in 1..Len(queued) : record[queued[i]].scheduled = 0

\* C1: FIFO. Of the jobs enqueued with scheduled = 0 and neither retried nor aborted,
\* a dequeue moves the one enqueued first (the head of queued, as RPUSH appends) to
\* active before any enqueued after it.
C1_FifoDequeue ==
    [][\A c \in Clients : Undisturbed /\ DequeueMove(c) => cur'[c] = Head(queued)]_vars

\* C2: no job id is in both the queued list and the active list.
C2_QueuedActiveDisjoint == Members(queued) \cap Members(active) = {}

\* C3: after every completed operation, ZCARD(incomplete) >= LLEN(queued) + LLEN(active).
C3_IncompleteCovers == AllIdle => ZCard(incomplete) >= Len(queued) + Len(active)

\* C4: every id in the queued list is a member of incomplete with score 0.
C4_QueuedScoreZero == \A i \in 1..Len(queued) : incomplete[queued[i]] = 0


\* C5: duplicate suppression. An enqueue of a key that is in incomplete returns None
\* and leaves incomplete, queued and the record as they were; an enqueue that returns
\* a job found its key absent from incomplete, adds exactly that key to incomplete and
\* at most one entry to queued - so of two enqueues of one fresh key, whatever their
\* order, only the first returns a job.
C5_DuplicateSuppressed ==
    [][\A c \in Clients, k \in Keys, a \in JobArgs : Enqueue(c, k, a) =>
          /\ incomplete[k] # NoScore =>
                /\ job'[c] = NoJob
                /\ incomplete' = incomplete /\ queued' = queued
                /\ record' = record /\ recExp' = recExp
          /\ job'[c] # NoJob =>
                /\ incomplete[k] = NoScore /\ incomplete'[k] # NoScore
                /\ \A o \in Keys \ {k} : incomplete'[o] = incomplete[o]
                /\ Len(queued') <= Len(queued) + 1
                /\ \A o \in Keys \ {k} : Count(queued', o) = Count(queued, o)]_vars

\* Two clients enqueued the same fresh key and nothing else happened: one holds the
\* job, the other got None, and the key is in incomplete once and queued at most once.
C5_OneOfTwoEnqueued ==
    \E c, d \in Clients, k \in Keys :
        /\ c # d /\ ops = 2 /\ last[c] = "enqueue" /\ last[d] = "enqueue"
        /\ got[c] = "enqueue" /\ job[c].key = k /\ job[d] = NoJob
        /\ \A o \in Keys : incomplete[o] # NoScore <=> o = k
        /\ Count(queued, k) <= 1

\* C6: while the abort marker of a key exists, an enqueue of the key returns None and
\* changes neither incomplete, queued nor the record; with no marker and the key
\* not in incomplete, the enqueue returns the job and puts the key into incomplete.
C6_AbortMarkerBlocksEnqueue ==
    [][\A c \in Clients, k \in Keys, a \in JobArgs : Enqueue(c, k, a) =>
          /\ abortExp[k] # 0 =>
                /\ job'[c] = NoJob
                /\ incomplete' = incomplete /\ queued' = queued
                /\ record' = record /\ recExp' = recExp
          /\ abortExp[k] = 0 /\ incomplete[k] = NoScore =>
                /\ job'[c] # NoJob /\ job'[c].key = k
                /\ incomplete'[k] = a.scheduled
                /\ record'[k] = job'[c]]_vars

\* An enqueue has returned None although incomplete is empty: the key's abort marker
\* stopped it, and the marker is there still.
C6_EnqueueBlockedByMarker ==
    \E c \in Clients :
        /\ last[c] = "enqueue" /\ pc[c] = "idle" /\ job[c] = NoJob
        /\ \A k \in Keys : incomplete[k] = NoScore
        /\ \E k \in Keys : abortExp[k] # 0

\* The clients whose next step publishes the status of the job they have finished.
FinishNotifyPcs == {"notify_done", "abort_notify", "sweep_notify"}
PendingOn(k, s) ==
    Cardinality({c \in Clients : pc[c] \in FinishNotifyPcs /\ job[c].key = k /\ job[c].status = s})
CounterOf(c, s) ==
    IF s = COMPLETE THEN counters[c].complete
    ELSE IF s = FAILED THEN counters[c].failed
    ELSE counters[c].aborted

\* C7: every transition of a job to a terminal status (a finish transaction, which the
\* queue handle counts by status) gets exactly one message with that status on the
\* job's channel: each step changes, per job and status, the messages published plus
\* those about to be by exactly the number of transitions it makes (from none of
\* either at the start).
C7_OneMessagePerTransition ==
    [][\A k \in Keys, s \in TERMINAL_STATUSES :
          Count(chan'[k], s) + PendingOn(k, s)' =
             Count(chan[k], s) + PendingOn(k, s)
             + (IF \E c \in Clients : CounterOf(c, s)' = CounterOf(c, s) + 1 /\ job'[c].key = k
                THEN 1 ELSE 0)]_vars

\* A job was finished and its status published, once.
C7_TransitionPublished ==
    /\ AllIdle
    /\ \E k \in Keys, s \in TERMINAL_STATUSES, c \in Clients :
          Count(chan[k], s) = 1 /\ CounterOf(c, s) = 1

\* A step that is a finish transaction by client c: finish's pipe.execute().
FinishStep(c) ==
    /\ pc[c] \notin FinishNotifyPcs
    /\ pc'[c] \in FinishNotifyPcs
    /\ job'[c].status \in TERMINAL_STATUSES

\* C8: retention. When finish's transaction has run, the record key holds the
\* finished record with an expiry of ttl seconds if job.ttl > 0, holds it with no
\* expiry if job.ttl = 0, and is absent if job.ttl < 0.
C8_FinishRetention ==
    [][\A c \in Clients : FinishStep(c) =>
          LET j == job'[c] IN
          /\ j.ttl > 0 => record'[j.key] = j /\ recExp'[j.key] = now + j.ttl
          /\ j.ttl = 0 => record'[j.key] = j /\ recExp'[j.key] = 0
          /\ j.ttl < 0 => record'[j.key] = NoJob /\ recExp'[j.key] = 0]_vars

\* A worker has finished a job with ttl > 0: the record is the finished job, expiring.
C8_FinishedWithTtl ==
    \E c \in Clients :
        /\ pc[c] = "notify_done" /\ last[c] = "finish" /\ job[c].ttl > 0
        /\ record[job[c].key] = job[c] /\ recExp[job[c].key] = now + job[c].ttl

\* C9: when finish's transaction has run, the job's id is in neither incomplete
\* nor active.
C9_FinishRemoves ==
    [][\A c \in Clients : FinishStep(c) =>
          /\ incomplete'[job'[c].key] = NoScore
          /\ job'[c].key \notin Members(active')]_vars

\* C10 as claimed: a successful dequeue moves the right end of queued to the head of
\* active, leaves incomplete and the record alone and returns the job decoded from
\* the record, its status still QUEUED; a timed-out dequeue returns None and changes
\* nothing.
C10_DequeueReturnsQueued ==
    [][\A c \in Clients :
          /\ DequeueMove(c) =>
                /\ queued = queued' \o <<cur'[c]>> /\ active' = <<cur'[c]>> \o active
                /\ incomplete' = incomplete /\ record' = record /\ recExp' = recExp
          /\ DequeueGet(c) =>
                /\ job'[c] = record[cur[c]] /\ job'[c].status = QUEUED
                /\ store' = store
          /\ DequeueTimeout(c) => job'[c] = NoJob /\ store' = store]_vars

\* C10, amended: as above, but the job returned is the record as it is when read
\* after the move - None when there is none by then, and of whatever status another
\* client has written meanwhile.
C10_DequeueTransfers ==
    [][\A c \in Clients :
          /\ DequeueMove(c) =>
                /\ queued = queued' \o <<cur'[c]>> /\ active' = <<cur'[c]>> \o active
                /\ incomplete' = incomplete /\ record' = record /\ recExp' = recExp
          /\ DequeueGet(c) =>
                /\ job'[c] = record[cur[c]]
                /\ store' = store
          /\ DequeueTimeout(c) => job'[c] = NoJob /\ store' = store]_vars

\* A dequeue has returned the job it moved into active.
C10_Dequeued ==
    \E c \in Clients :
        /\ pc[c] = "idle" /\ last[c] = "dequeue" /\ got[c] = "dequeue"
        /\ active # <<>> /\ Head(active) = job[c].key
        /\ record[job[c].key] = job[c]


\* C11: scheduled promotion. An enqueue with scheduled = T > now that returns the job
\* leaves the id in incomplete with score T and not in queued; a schedule run moves no
\* id whose score is beyond now; a schedule run that finds the lock free leaves every
\* id whose score is in [1, now] in queued exactly once and with score 0.
C11_ScheduledPromotion ==
    [][/\ \A c \in Clients, k \in Keys, a \in JobArgs :
             Enqueue(c, k, a) /\ a.scheduled > now /\ job'[c] # NoJob =>
                incomplete'[k] = a.scheduled /\ k \notin Members(queued')
       /\ \A c \in Clients, l \in ScheduleLock : Schedule(c, l) =>
             \A k \in Keys :
                /\ incomplete[k] > now =>
                      incomplete'[k] = incomplete[k] /\ Count(queued', k) = Count(queued, k)
                /\ schedLock = 0 /\ incomplete[k] >= 1 /\ incomplete[k] <= now =>
                      incomplete'[k] = 0 /\ Count(queued', k) = 1]_vars


\* C12: schedule mutual exclusion. A schedule call made while the lock key exists
\* changes neither incomplete nor queued; a call that finds the lock free takes it
\* for its lock interval, and the key stays until that interval is over, so no other
\* call promotes meanwhile; a call pushes an id at most once, and only a due id with
\* the lock free, whose score it sets to 0 so that it is not due for a later call.
C12_ScheduleMutex ==
    [][/\ \A c \in Clients, l \in ScheduleLock : Schedule(c, l) =>
             /\ schedLock # 0 =>
                   incomplete' = incomplete /\ queued' = queued /\ schedLock' = schedLock
             /\ schedLock = 0 => schedLock' = now + l
             /\ \A k \in Keys :
                   /\ Count(queued', k) <= Count(queued, k) + 1
                   /\ Count(queued', k) # Count(queued, k) \/ incomplete'[k] # incomplete[k] =>
                         /\ schedLock = 0 /\ k \in Due
                         /\ Count(queued', k) = Count(queued, k) + 1 /\ incomplete'[k] = 0
       /\ schedLock' # 0 => schedLock' > now'
       /\ schedLock # 0 /\ schedLock' # schedLock => now' >= schedLock]_vars

\* Four operations: two enqueues of jobs scheduled for now and two schedule calls; the
\* first call promoted one job, the other job came after it and is due, and the second
\* call, made while the lock was there, left it where it was.
C12_SecondCallBlocked ==
    /\ ops = 4 /\ \A c \in Clients : last[c] = "schedule" /\ pc[c] = "idle"
    /\ schedLock # 0
    /\ \E k, o \in Keys :
          /\ incomplete[k] = 0 /\ queued = <<k>> /\ record[k].scheduled >= 1
          /\ o \in Due /\ o \notin Members(queued)


\* C13 as claimed: when abort(job, error) of a job whose id was in queued completes
\* (its last step, the DEL of the marker), the id is in neither queued nor incomplete,
\* the record has status ABORTED and the given error, 'aborted' has been published on
\* the job's channel and there is no abort marker.
C13_AbortQueuedStoresRecord ==
    [][\A c \in Clients : AbortDelete(c) =>
          LET k == job[c].key IN
          /\ k \notin Members(queued') /\ incomplete'[k] = NoScore
          /\ record'[k].status = ABORTED /\ record'[k].error = job[c].error
          /\ Count(chan'[k], ABORTED) >= 1
          /\ abortExp'[k] = 0]_vars


\* C13, amended: abort(job, error) of a job whose id is in queued removes the id from
\* queued and incomplete in its transaction; its finish then makes the job ABORTED
\* with the given error and keeps the record by the ttl rule - stored if job.ttl >= 0,
\* deleted if job.ttl < 0; its notify publishes 'aborted'; its last step deletes the
\* abort marker.
C13_AbortQueued ==
    [][\A c \in Clients :
          LET k == job[c].key IN
          /\ \A e \in Errors, t \in AbortTtl :
                Abort(c, e, t) /\ Count(queued, k) # 0 =>
                   /\ pc'[c] = "abort_finish" /\ job'[c].error = e
                   /\ k \notin Members(queued') /\ incomplete'[k] = NoScore
          /\ AbortFinish(c) =>
                /\ job'[c].status = ABORTED /\ job'[c].error = job[c].error
                /\ incomplete'[k] = NoScore
                /\ job[c].ttl >= 0 => record'[k] = job'[c]
                /\ job[c].ttl < 0 => record'[k] = NoJob
          /\ AbortNotify(c) => chan'[k] = Append(chan[k], ABORTED)
          /\ AbortDelete(c) => abortExp'[k] = 0 /\ pc'[c] = "idle"]_vars

\* An abort of a queued job has completed: the id is gone from queued and incomplete,
\* the record says ABORTED with the error given, 'aborted' is on the channel and
\* there is no marker.
C13_QueuedJobAborted ==
    \E c \in Clients, k \in Keys :
        /\ last[c] = "abort" /\ pc[c] = "idle" /\ ops = 2
        /\ k \notin Members(queued) /\ incomplete[k] = NoScore
        /\ record[k].status = ABORTED /\ record[k].error = "err"
        /\ chan[k] = <<ABORTED>> /\ abortExp[k] = 0


\* The sweep of client c is under way, past its script.
Sweeping(c) == pc[c] \in {"sweep_mget", "sweep_loop", "sweep_notify"}

\* C14: sweep orphan. When a sweep that found its lock free comes to an id of active
\* whose record it found missing, it adds the id to its result and the id is then in
\* neither active nor incomplete; the result only grows until the sweep returns. A
\* sweep call made while the lock key exists returns the empty list and changes
\* nothing in the store and publishes nothing.
C14_SweepOrphan ==
    [][\A c \in Clients :
          /\ SweepItem(c) /\ Head(todo[c])[2] = NoJob =>
                LET id == Head(todo[c])[1] IN
                /\ swept'[c] = Append(swept[c], id)
                /\ id \notin Members(active') /\ incomplete'[id] = NoScore
          /\ Sweeping(c) =>
                /\ Len(swept'[c]) >= Len(swept[c])
                /\ SubSeq(swept'[c], 1, Len(swept[c])) = swept[c]
          /\ \A l \in SweepLock : SweepScript(c, l) /\ sweepLock # 0 =>
                /\ swept'[c] = <<>> /\ pc'[c] = "idle"
                /\ store' = store /\ chan' = chan]_vars

\* A sweep has returned one id without finishing any job: the id's record was missing,
\* and the id is in neither active nor incomplete.
C14_OrphanSwept ==
    \E c \in Clients, k \in Keys :
        /\ last[c] = "sweep" /\ pc[c] = "idle" /\ swept[c] = <<k>>
        /\ counters[c].aborted = 0
        /\ record[k] = NoJob /\ k \notin Members(active) /\ incomplete[k] = NoScore


\* A job whose time limit and heartbeat are both 0, and which is ACTIVE.
ActiveUnlimited(j) == j.status = ACTIVE /\ j.timeout = 0 /\ j.heartbeat = 0

\* C15: timeout = 0 disables the time limit. An ACTIVE job with timeout = 0 and
\* heartbeat = 0 is never stuck, however long ago it started, and a sweep that reads
\* its record while it is ACTIVE does not abort it.
C15_TimeoutZeroNeverStuck ==
    [][/\ \A k \in Keys : ActiveUnlimited(record'[k]) => ~ stuck(record[k])'
       /\ \A c \in Clients :
             SweepItem(c) /\ ActiveUnlimited(Head(todo[c])[2]) => pc'[c] # "sweep_notify"]_vars


\* A step that publishes status s on the channel of k.
Published(k, s) == chan'[k] = Append(chan[k], s)

\* C18 as claimed: when a terminal status is published on a job's channel, the job's
\* record (as a subscriber reading it on receipt finds it) has that status.
C18_RecordHasPublishedStatus ==
    [][\A k \in Keys, s \in TERMINAL_STATUSES :
          Published(k, s) => record'[k].status = s]_vars

\* C18, amended: a terminal status is published only by a client whose finish
\* transaction for that job and status has already executed, in an earlier step of
\* its own; that transaction publishes nothing and writes the record with that status
\* if job.ttl >= 0 and deletes it if job.ttl < 0.
C18_NotifyAfterTransaction ==
    [][/\ \A k \in Keys, s \in TERMINAL_STATUSES :
             Published(k, s) =>
                \E c \in Clients :
                   /\ pc[c] \in FinishNotifyPcs /\ pc'[c] # pc[c]
                   /\ job[c].key = k /\ job[c].status = s /\ job[c].completed # 0
       /\ \A c \in Clients : FinishStep(c) =>
             LET j == job'[c] IN
             /\ chan' = chan
             /\ j.completed = now
             /\ record'[j.key] = IF j.ttl >= 0 THEN j ELSE NoJob]_vars

\* A worker's finish has returned: its message is on the channel and the record the
\* transaction kept has the status published.
C18_PublishedAndStored ==
    \E c \in Clients, k \in Keys, s \in TERMINAL_STATUSES :
        /\ last[c] = "finish" /\ pc[c] = "idle"
        /\ chan[k] # <<>> /\ chan[k][Len(chan[k])] = s
        /\ record[k].status = s /\ record[k].completed # 0


\* The crashed worker's job is off the lists for good.
CrashedJobGone == "a" \notin Members(active) /\ incomplete["a"] = NoScore

\* C17 as claimed: after the crash, the record of the job eventually has status
\* ABORTED and error 'swept', its id leaves active and incomplete for good, and
\* 'aborted' is published on its channel.
C17_CrashedRecordAborted ==
    /\ <>(record["a"].status = ABORTED /\ record["a"].error = "swept")
    /\ <>[]CrashedJobGone
    /\ <>(Count(chan["a"], ABORTED) >= 1)

\* C17, amended: after the crash, a sweep eventually finishes the job as ABORTED with
\* error 'swept': if job.ttl >= 0 the record eventually has that status and error, if
\* job.ttl < 0 the record is eventually deleted; the id leaves active and incomplete
\* for good and 'aborted' is published on the channel.
C17_CrashRecovery ==
    /\ (record["a"].status \in {QUEUED, ACTIVE} /\ record["a"].ttl >= 0)
          ~> (record["a"].status = ABORTED /\ record["a"].error = "swept")
    /\ (record["a"].status \in {QUEUED, ACTIVE} /\ record["a"].ttl < 0)
          ~> (record["a"] = NoJob)
    /\ <>[]CrashedJobGone
    /\ <>[](Count(chan["a"], ABORTED) >= 1)

\* A sweep has recovered a job that was ACTIVE when its worker died: the record says
\* ABORTED and 'swept', the id is off the lists, 'aborted' came after 'active'.
C17_StuckJobSwept ==
    /\ record["a"].status = ABORTED /\ record["a"].error = "swept"
    /\ record["a"].started # 0
    /\ CrashedJobGone
    /\ chan["a"] = <<ACTIVE, ABORTED>>
    /\ \E c \in Clients : swept[c] = <<"a">>


\* A step of client c inside an enqueue call or into one.
EnqueueStep(c) == <<pc[c], cbs[c], ran[c]>>' # <<pc[c], cbs[c], ran[c]>>

\* C19: before_enqueue callbacks. On every enqueue the registered callbacks are
\* awaited one after another in registration order before the script runs (while the
\* call is at its callbacks, those awaited followed by those to come are the registry,
\* and the store is as it was; the script runs with all of them awaited); if a
\* callback raises, the later ones are not run, the call ends with the exception, and
\* incomplete, queued and the record are not touched.
C19_BeforeEnqueue ==
    [][\A c \in Clients :
          /\ pc'[c] = "before_enqueue" =>
                /\ ran'[c] \o cbs'[c] = before'[c]
                /\ raised'[c] = "none"
                /\ EnqueueStep(c) => UNCHANGED <<incomplete, queued, record, recExp>>
          /\ (pc[c] = "before_enqueue" /\ pc'[c] = "idle" /\ raised'[c] = "none") =>
                ran[c] = before[c]
          /\ (raised[c] = "none" /\ raised'[c] = "callback") =>
                /\ pc'[c] = "idle" /\ cbs'[c] = <<>> /\ job'[c] = NoJob
                /\ Len(ran'[c]) >= 1
                /\ ran'[c] = SubSeq(before[c], 1, Len(ran'[c]))
                /\ UNCHANGED <<incomplete, queued, record, recExp>>
          /\ (pc[c] = "before_enqueue" /\ EnqueueStep(c)
                /\ <<incomplete, queued, record>>' # <<incomplete, queued, record>>) =>
                (raised'[c] = "none" /\ ran[c] = before[c])]_vars

\* C19's case: three callbacks registered, the second raised: the third was not run
\* and nothing was stored.
C19_SecondCallbackRaised ==
    \E c \in Clients :
        /\ pc[c] = "idle" /\ raised[c] = "callback"
        /\ before[c] = <<"cb1", "cb2", "track_child">>
        /\ ran[c] = <<"cb1", "cb2">>
        /\ children[c] = {}
        /\ \A k \in Keys : incomplete[k] = NoScore /\ record[k] = NoJob
        /\ queued = <<>>

\* The pc values of an abort in progress.
Aborting(c) == pc[c] \in {"abort_finish", "abort_notify", "abort_delete", "abort_lrem"}

\* C20: batch. A job an enqueue inside the scope inserts is among the scope's
\* children; when the body raises, the scope ends only after abort was called for
\* every child, whether or not those calls failed, and ends with the body's exception;
\* a scope that is over, either way, has no track_child registered; a normal exit
\* changes nothing in the store, and outside the except clause no abort is called.
C20_Batch ==
    [][\A c \in Clients :
          /\ (scope[c] = "open" /\ pc[c] = "before_enqueue" /\ got'[c] = "enqueue") =>
                job'[c] \in children'[c]
          /\ scope[c] # "none" /\ scope'[c] # "none" => children[c] \subseteq children'[c]
          /\ (scope[c] = "aborting" /\ scope'[c] = "none") =>
                /\ called[c] = children[c]
                /\ raised'[c] = "body"
          /\ called'[c] \subseteq children'[c]
          /\ scope'[c] = "none" => \A i \in 1..Len(before'[c]) : before'[c][i] # "track_child"
          /\ (scope[c] = "open" /\ scope'[c] = "none") =>
                /\ UNCHANGED <<store, chan>>
                /\ called'[c] = {} /\ raised'[c] = "none" /\ pc'[c] = "idle"
          /\ Aborting(c)' => scope'[c] = "aborting"
          /\ called'[c] \ called[c] # {} => scope[c] = "aborting"]_vars

\* C20's case: a scope whose body raised is over; it had enqueued two jobs, abort was
\* called for both, and the one that was still queued was finished as ABORTED.
C20_BatchAborted ==
    \E c \in Clients :
        /\ scope[c] = "none" /\ raised[c] = "body" /\ pc[c] = "idle"
        /\ Cardinality(children[c]) = 2
        /\ called[c] = children[c]
        /\ \E k \in Keys : Count(chan[k], ABORTED) = 1
        /\ before[c] = <<>>

\* Every job of client c's map has had a terminal status published on its channel.
MapJobsTerminal(c) ==
    /\ pc[c] = "map" /\ mapLeft[c] = {}
    /\ \A k \in mapKeys[c] : \E s \in TERMINAL_STATUSES : Count(chan[k], s) > 0

\* C16: map's ordering. The listener is subscribed when any of the map's enqueue
\* scripts reaches the store, so it is subscribed when a terminal status is published
\* for a job of the map, and once every job of the map is terminal the map returns.
C16_SubscribedBeforeEnqueue ==
    /\ [][\A c \in Clients :
             /\ (pc[c] = "map" /\ mapLeft'[c] # mapLeft[c]) => listen[c] = "subscribed"
             /\ \A k \in mapKeys[c], s \in TERMINAL_STATUSES :
                   (pc[c] = "map" /\ Published(k, s)) => listen[c] = "subscribed"]_vars
    /\ \A c \in Clients : MapJobsTerminal(c) ~> (pc[c] = "idle")

C22_RetryActive ==
    [][\A c \in Clients :
          /\ \A e \in WorkerErrors, d \in RetryDelay :
                (Retry(c, e, d) /\ job[c].key \in Members(active)) =>
                   LET k == job[c].key IN
                   /\ Count(active', k) = 0
                   /\ record'[k] = [job[c] EXCEPT !.status = QUEUED, !.error = e, !.started = 0,
                                                   !.completed = 0, !.progress = 0, !.touched = now]
                   /\ d = 0 => Count(queued', k) = 1 /\ incomplete'[k] = job[c].scheduled
                   /\ d # 0 => Count(queued', k) = 0 /\ incomplete'[k] = now + d
          /\ (NotifyDone(c) /\ last[c] = "retry") => Published(job[c].key, QUEUED)]_vars

\* C23: in every state, a key whose stored record has status QUEUED or ACTIVE is a
\* member of incomplete (a sorted set holds a member at most once).
C23_NonTerminalIncomplete ==
    \A k \in Keys :
        (record[k] # NoJob /\ record[k].status \in {QUEUED, ACTIVE}) => incomplete[k] # NoScore

\* The abort of job "a" by its producer has completed, the job was in incomplete and
\* not in queued when its transaction ran, and no sweep had finished it before.
AbortedNotQueued ==
    /\ pc["c1"] = "idle" /\ last["c1"] = "abort"
    /\ \A c \in Clients : counters[c].aborted = 0 /\ pc[c] \notin {"sweep_loop", "sweep_notify"}

\* C24: abort of a job that is not in queued. The abort transaction of a job whose id
\* is in incomplete and not in queued sets the abort marker, and after the abort has
\* completed the job's record eventually has status ABORTED and aborted is published
\* on its channel, with sweep running periodically.
C24_AbortNotQueued ==
    /\ [][\A c \in Clients, e \in WorkerErrors, t \in AbortTtl :
             Abort(c, e, t) => abortExp'[job[c].key] = now + t]_vars
    /\ AbortedNotQueued ~>
          (record["a"] # NoJob /\ record["a"].status = ABORTED /\ Count(chan["a"], ABORTED) >= 1)

\* C25: while the abort marker of a key exists, no operation adds the key to
\* incomplete or to queued; a retry by the worker that holds the job does not.
C25_MarkerBlocksRetry ==
    [][\A k \in Keys :
          (abortExp[k] # 0 /\ abortExp'[k] # 0) =>
             /\ incomplete[k] = NoScore => incomplete'[k] = NoScore
             /\ Count(queued', k) <= Count(queued, k)]_vars

\* C26: one terminal status. When a sweep comes to an id whose stored record has
\* status COMPLETE or FAILED (a worker's finish stored it after the sweep had read the
\* active list and the record), the sweep leaves the record as it is and has no
\* terminal status to publish for it.
C26_OneTerminalStatus ==
    [][\A c \in Clients :
          SweepItem(c) =>
             LET id == Head(todo[c])[1]
             IN (record[id] # NoJob /\ record[id].status \in {COMPLETE, FAILED}) =>
                   /\ record'[id] = record[id]
                   /\ pc'[c] # "sweep_notify"]_vars

\* C27: the batch aborts only what it inserted. A job of an in-scope enqueue that
\* returned None or ended with a callback's exception is not among the scope's
\* children, the jobs abort is called for when the body raises; nor is a job that
\* another task enqueued on the handle while the scope was open.
C27_AbortsOnlyInserted ==
    [][\A c \in Clients :
          /\ (scope[c] = "open" /\ pc[c] = "before_enqueue" /\ pc'[c] = "idle"
                /\ got'[c] = "none") => job[c] \notin children'[c]
          /\ \A k \in Keys, a \in JobArgs :
                OtherTaskEnqueue(c, k, a) => children'[c] = children[c]]_vars

\* The state InitPromotedTwice starts from, but for the operations begun.
PromotedTwiceNotReached ==
    ~ /\ now = 2 /\ incomplete["a"] = 0 /\ incomplete["b"] = NoScore
      /\ queued = <<"a", "a">> /\ active = <<>>
      /\ record["a"] = Job("a", QUEUED, "retried from ui", 2, 0, 0, 0, 0, 2, 0, 0)
      /\ record["b"] = NoJob /\ recExp = [k \in Keys |-> 0] /\ abortExp = [k \in Keys |-> 0]
      /\ schedLock = 3 /\ sweepLock = 0
      /\ chan["a"] = <<QUEUED>> /\ chan["b"] = <<>>
      /\ AllIdle /\ job = [c \in Clients |-> NoJob] /\ cur = [c \in Clients |-> NoKey]
      /\ todo = [c \in Clients |-> <<>>] /\ swept = [c \in Clients |-> <<>>]
      /\ counters["c1"].retried = 1 /\ counters["c2"].retried = 0
      /\ last["c1"] = "web_retry" /\ last["c2"] = "schedule" /\ got = [c \in Clients |-> "none"]

====
